---- MODULE Spec2Model ----
(***************************************************************************)
(* State-machine model of BoringCache (vilicvane/boring-cache), the newest *)
(* variant of the class (src/unnamed/part_000): an in-memory map of scalar *)
(* and list entries with per-entry expiry, a setImmediate-debounced        *)
(* write-back and a JSON snapshot file.                                    *)
(*                                                                         *)
(* Encodings.  `undefined` is the empty tuple <<>> and a defined value x   *)
(* is <<x>> wherever JavaScript allows both.  A slot of the map is         *)
(* [kind, items]: kind "absent" (no property), "entry" (one CacheEntry,    *)
(* items = <<e>>) or "list" (an array of CacheEntry).  A CacheEntry in     *)
(* memory is a record with a value field and, when the property exists,    *)
(* an expires field holding <<>> or <<n>>.  An entry of the JSON document  *)
(* has a value field and, only when written, an expires field holding the  *)
(* number itself.                                                          *)
(***************************************************************************)
EXTENDS Integers, Sequences, FiniteSets, TLC

\* ---------------------------------------------------------------- bounds
MaxTime == 2      \* Date.now() ranges over 1..MaxTime
MaxTtl == 1       \* finite ttl arguments range over 0..MaxTtl
MaxEntries == 2   \* set and push are not taken when data would hold more entries

MaxDelay == 1     \* milliseconds that can pass inside one constructor call

Infinity == -1    \* stands for the IEEE value Infinity (the default ttl)

StoreIds == {"s1", "s2"}   \* BoringCache instances a process may construct
SpecStores == {"s1"}       \* the instance used by Spec
\* One key: every method but clear() and the loop of save() touches the slot
\* of its key alone, and those two treat each key by itself.
Keys == {"a"}
Values == {1, 2}
TTLs == (0..MaxTtl) \cup {Infinity}

Undefined == <<>>

VARIABLES
  now,         \* Date.now()
  fileExists,  \* FS.existsSync(path)
  file,        \* the JSON document at path (Keys -> JSON slot)
  proc,        \* "running" or "exited"
  constructed, \* constructed[s]: the instance s exists in this process
  data,        \* data[s]: this.data of s (Keys -> slot)
  timer,       \* timer[s]: this.writeDebounceTimer (0 = undefined, else a handle)
  immediates,  \* the event loop's queue of setImmediate callbacks
  exitHooks,   \* process.on('exit') listeners, in registration order
  lastOp,      \* history: the operation that produced this state
  burst,       \* history: the mutation calls on s since its last save()
  watch,       \* history: one finite-ttl write that is being followed
  saved        \* history: this.data of the instance that last wrote the file

vars == <<now, fileExists, file, proc, constructed, data, timer, immediates,
          exitHooks, lastOp, burst, watch, saved>>

\* ------------------------------------------------------------ data model
Absent == [kind |-> "absent", items |-> <<>>]
EmptyData == [k \in Keys |-> Absent]

\* entry.expires: a missing property reads as undefined
Expires(e) == IF "expires" \in DOMAIN e THEN e.expires ELSE Undefined

\* !x for x a number or undefined
Falsy(x) == x = Undefined \/ x[1] = 0

IsArray(slot) == slot.kind = "list"

\* item => !item.expires || item.expires > now   (list(), and the list branch of save())
ItemLive(item, t) == Falsy(Expires(item)) \/ Expires(item)[1] > t

LiveItems(items, t) == SelectSeq(items, LAMBDA item : ItemLive(item, t))

ValuesOf(items) == [i \in 1..Len(items) |-> items[i].value]

\* the entry literal of _set and push: {value, expires: ttl === Infinity ? undefined : Date.now() + ttl}
NewEntry(value, ttl, t) ==
  [value |-> value, expires |-> IF ttl = Infinity THEN Undefined ELSE <<t + ttl>>]

\* get(key) with the comparison of expires and now made inclusive
GetInclusive(d, key, t) ==
  LET entry == d[key]
  IN IF IsArray(entry) THEN Undefined
     ELSE IF entry.kind = "entry"
             /\ (Falsy(Expires(entry.items[1])) \/ Expires(entry.items[1])[1] >= t)
          THEN <<entry.items[1].value>>
          ELSE Undefined

\* get(key): <<>> is undefined, <<v>> the value v
Get(d, key, t) ==
  LET entry == d[key]
  IN IF IsArray(entry) THEN Undefined
     ELSE IF entry.kind = "entry"
             /\ (Falsy(Expires(entry.items[1])) \/ Expires(entry.items[1])[1] > t)
          THEN <<entry.items[1].value>>
          ELSE Undefined

\* list(key) without the Array.isArray test
ListAnyShape(d, key, t) == ValuesOf(LiveItems(d[key].items, t))

\* list(key)
List(d, key, t) ==
  LET items == d[key]
  IN IF ~IsArray(items) THEN <<>>
     ELSE ValuesOf(LiveItems(items.items, t))

\* _set(key, value, ttl)
SetData(d, key, value, ttl, t) ==
  [d EXCEPT ![key] = [kind |-> "entry", items |-> <<NewEntry(value, ttl, t)>>]]

\* push(key, value, ttl) putting the new entry first
PushDataFirst(d, key, value, ttl, t) ==
  LET items == d[key]
  IN [d EXCEPT ![key] =
        [kind |-> "list",
         items |-> <<NewEntry(value, ttl, t)>>
                   \o (IF IsArray(items) THEN items.items ELSE <<>>)]]

\* push(key, value, ttl) that spreads whatever the slot holds, a scalar entry
\* included
PushDataKeepScalar(d, key, value, ttl, t) ==
  [d EXCEPT ![key] =
     [kind |-> "list", items |-> d[key].items \o <<NewEntry(value, ttl, t)>>]]

\* the assignment of push(key, value, ttl)
PushData(d, key, value, ttl, t) ==
  LET items == d[key]
  IN [d EXCEPT ![key] =
        [kind |-> "list",
         items |-> (IF IsArray(items) THEN items.items ELSE <<>>)
                   \o <<NewEntry(value, ttl, t)>>]]

\* The second argument of pull: a literal (fn = FALSE) or a predicate, given
\* by the set of values it accepts (fn = TRUE).
Matchers ==
  {[fn |-> FALSE, value |-> v, accepts |-> {}] : v \in Values}
  \cup {[fn |-> TRUE, value |-> 0, accepts |-> S] : S \in SUBSET Values}

\* matcher(value) of pull
Matches(m, comparingValue) ==
  IF m.fn THEN comparingValue \in m.accepts ELSE comparingValue = m.value

\* pull(key, value) as in the older variant (src/unnamed/part_001, line 94): the
\* matching items are the ones kept
PullDataKeepMatches(d, key, m) ==
  [d EXCEPT ![key] =
     [kind |-> "list",
      items |-> SelectSeq(d[key].items, LAMBDA item : Matches(m, item.value))]]

\* the assignment of pull(key, value) on an array slot
PullData(d, key, m) ==
  [d EXCEPT ![key] =
     [kind |-> "list",
      items |-> SelectSeq(d[key].items, LAMBDA item : ~Matches(m, item.value))]]

\* delete this.data[key]
DeleteData(d, key) == [d EXCEPT ![key] = Absent]

\* one iteration of the loop of save() that drops what expires up to one
\* millisecond after now
SweepSlotEarly(entry, t) ==
  IF IsArray(entry)
  THEN LET kept == LiveItems(entry.items, t + 1)
       IN IF Len(kept) # 0 THEN [kind |-> "list", items |-> kept] ELSE Absent
  ELSE IF entry.kind = "absent"
          \/ (~Falsy(Expires(entry.items[1])) /\ Expires(entry.items[1])[1] < t + 1)
       THEN Absent
       ELSE entry

\* one iteration of the loop of save()
SweepSlot(entry, t) ==
  IF IsArray(entry)
  THEN LET kept == LiveItems(entry.items, t)
       IN IF Len(kept) # 0 THEN [kind |-> "list", items |-> kept] ELSE Absent
  ELSE IF entry.kind = "absent"
          \/ (~Falsy(Expires(entry.items[1])) /\ Expires(entry.items[1])[1] < t)
       THEN Absent
       ELSE entry

\* the loop of save() over Object.keys(data)
Sweep(d, t) == [k \in Keys |-> SweepSlot(d[k], t)]

\* a serialization that writes the value alone
StringifyEntryValueOnly(e) == [value |-> e.value]

\* JSON.stringify of one CacheEntry: a property whose value is undefined is omitted
StringifyEntry(e) ==
  IF Expires(e) = Undefined THEN [value |-> e.value]
  ELSE [value |-> e.value, expires |-> Expires(e)[1]]

\* the document FS.outputJSONSync writes for data
Stringify(d) ==
  [k \in Keys |->
     [kind |-> d[k].kind,
      items |-> [i \in 1..Len(d[k].items) |-> StringifyEntry(d[k].items[i])]]]

ParseEntry(j) ==
  IF "expires" \in DOMAIN j THEN [value |-> j.value, expires |-> <<j.expires>>]
  ELSE [value |-> j.value]

\* JSON.parse(FS.readFileSync(path))
Parse(doc) ==
  [k \in Keys |->
     [kind |-> doc[k].kind,
      items |-> [i \in 1..Len(doc[k].items) |-> ParseEntry(doc[k].items[i])]]]

\* --------------------------------------------------- the mutable world
\* The part of the state the methods of one call chain read and write.
Cur ==
  [data |-> data, timer |-> timer, immediates |-> immediates, file |-> file,
   fileExists |-> fileExists, saved |-> saved, writes |-> 0]

Commit(st) ==
  /\ data' = st.data
  /\ timer' = st.timer
  /\ immediates' = st.immediates
  /\ file' = st.file
  /\ fileExists' = st.fileExists
  /\ saved' = st.saved

\* clearImmediate(handle): the callback leaves the queue if it is still there
ClearImmediate(q, s, id) ==
  SelectSeq(q, LAMBDA cb : ~(cb.store = s /\ cb.id = id))

\* a handle no queued callback of s uses
NewHandle(q, s) ==
  CHOOSE id \in 1..(Len(q) + 1) :
    /\ \A i \in 1..Len(q) : ~(q[i].store = s /\ q[i].id = id)
    /\ \A j \in 1..(id - 1) : \E i \in 1..Len(q) : q[i].store = s /\ q[i].id = j

\* save() that keeps the slot of the file for every key its own mapping lacks
SaveMerging(st, s, t) ==
  LET swept == Sweep(st.data[s], t)
  IN [st EXCEPT
        !.immediates = IF st.timer[s] # 0 THEN ClearImmediate(@, s, st.timer[s]) ELSE @,
        !.timer = [@ EXCEPT ![s] = 0],
        !.data = [@ EXCEPT ![s] = swept],
        !.file = [k \in Keys |-> IF swept[k].kind = "absent" /\ st.fileExists
                                 THEN st.file[k] ELSE Stringify(swept)[k]],
        !.fileExists = TRUE,
        !.saved = swept,
        !.writes = @ + 1]

\* save() that clears the timer and sweeps, and leaves the file as it is
SaveNoWrite(st, s, t) ==
  LET swept == Sweep(st.data[s], t)
  IN [st EXCEPT
        !.immediates = IF st.timer[s] # 0 THEN ClearImmediate(@, s, st.timer[s]) ELSE @,
        !.timer = [@ EXCEPT ![s] = 0],
        !.data = [@ EXCEPT ![s] = swept],
        !.fileExists = TRUE,
        !.writes = @ + 1]

\* save() without the clearImmediate call
SaveNoClear(st, s, t) ==
  LET swept == Sweep(st.data[s], t)
  IN [st EXCEPT
        !.timer = [@ EXCEPT ![s] = 0],
        !.data = [@ EXCEPT ![s] = swept],
        !.file = Stringify(swept),
        !.fileExists = TRUE,
        !.saved = swept,
        !.writes = @ + 1]

\* save(); saved and writes are the history of the write
Save(st, s, t) ==
  LET swept == Sweep(st.data[s], t)
  IN [st EXCEPT
        !.immediates = IF st.timer[s] # 0 THEN ClearImmediate(@, s, st.timer[s]) ELSE @,
        !.timer = [@ EXCEPT ![s] = 0],
        !.data = [@ EXCEPT ![s] = swept],
        !.file = Stringify(swept),
        !.fileExists = TRUE,
        !.saved = swept,
        !.writes = @ + 1]

\* What is at path after a write of FS.outputJSONSync that stopped part-way:
\* the call opens the file for writing, which empties it, and writes the text
\* in place, so a cut-off write leaves a prefix of the text, not a document.
TruncatedDoc == [k \in Keys |-> [kind |-> "truncated", items |-> <<>>]]

\* save() whose FS.outputJSONSync call throws, before it touched the file
\* (torn = FALSE) or after it emptied it (torn = TRUE): the statements before
\* the call have run
SaveThrowing(st, s, t, torn) ==
  LET swept == Sweep(st.data[s], t)
  IN [st EXCEPT
        !.immediates = IF st.timer[s] # 0 THEN ClearImmediate(@, s, st.timer[s]) ELSE @,
        !.timer = [@ EXCEPT ![s] = 0],
        !.data = [@ EXCEPT ![s] = swept],
        !.file = IF torn THEN TruncatedDoc ELSE @,
        !.fileExists = IF torn THEN TRUE ELSE @]

\* scheduleWrite() without the test of writeDebounceTimer
ScheduleWriteAlways(st, s) ==
  LET id == NewHandle(st.immediates, s)
  IN [st EXCEPT
        !.timer = [@ EXCEPT ![s] = id],
        !.immediates = Append(@, [store |-> s, id |-> id])]

\* scheduleWrite() that sets the timer field and hands no callback to the
\* event loop
ScheduleWriteUnqueued(st, s) ==
  IF st.timer[s] # 0 THEN st
  ELSE [st EXCEPT !.timer = [@ EXCEPT ![s] = NewHandle(st.immediates, s)]]

\* a mutation that forgets to call scheduleWrite()
ScheduleWriteNever(st, s) == st

\* scheduleWrite()
ScheduleWrite(st, s) ==
  IF st.timer[s] # 0 THEN st
  ELSE LET id == NewHandle(st.immediates, s)
       IN [st EXCEPT
             !.timer = [@ EXCEPT ![s] = id],
             !.immediates = Append(@, [store |-> s, id |-> id])]

\* no 'exit' listener, as in src/src/index.ts
NoExitHook(st, s) == st

\* the process 'exit' listener registered by the constructor of s
ExitHook(st, s) == IF st.timer[s] # 0 THEN Save(st, s, now) ELSE st

RECURSIVE RunExitHooks(_, _)
\* process.emit('exit'): the listeners run in registration order
RunExitHooks(st, hooks) ==
  IF hooks = <<>> THEN st
  ELSE RunExitHooks(ExitHook(st, Head(hooks)), Tail(hooks))

\* ------------------------------------------------------------ histories
\* info: set, push - 1 when the slot was an array, else 0;
\* pull - the number of removed items, -1 when the slot was no array;
\* construct - 1 when the file was loaded, else 0; save, immediate - the number
\* of entries the sweep removed; exit - the instances whose write-back was
\* pending.
Op(op, s, key, pending, writes, info) ==
  [op |-> op, store |-> s, key |-> key, pending |-> pending, writes |-> writes,
   info |-> info]

\* burst[s]: "none" - no mutation call since the last save() of s; "returned" -
\* only calls that returned before scheduleWrite(); "scheduling" - some call
\* reached scheduleWrite(); "failed" - no mutation call since the last save()
\* of s, and that save() threw.
InBurst(s, scheduling) ==
  [burst EXCEPT ![s] = IF scheduling \/ @ = "scheduling" THEN "scheduling" ELSE "returned"]

NoWatch ==
  [on |-> FALSE, store |-> "-", key |-> "-", push |-> FALSE, before |-> <<>>,
   value |-> 0, expires |-> 0]

\* The followed write after a call that mutates key of s: the call itself when it
\* is a write with a finite ttl (fresh.on), or the write followed so far when it
\* is on another slot.
WatchAfter(s, key, fresh) ==
  LET keep == IF watch.on /\ ~(watch.store = s /\ watch.key = key) THEN {watch} ELSE {}
      take == IF fresh.on THEN {fresh} ELSE {}
  IN IF keep \cup take = {} THEN {NoWatch} ELSE keep \cup take

Mutations == {"set", "push", "pull", "delete", "clear"}

RECURSIVE CountEntries(_, _)
\* the number of CacheEntry objects d holds under the keys ks
CountEntries(d, ks) ==
  IF ks = {} THEN 0
  ELSE LET k == CHOOSE x \in ks : TRUE
       IN Len(d[k].items) + CountEntries(d, ks \ {k})

\* ----------------------------------------------------------------- state
Init ==
  /\ now = 1
  /\ fileExists = FALSE
  /\ file = Stringify(EmptyData)
  /\ proc = "running"
  /\ constructed = [s \in StoreIds |-> FALSE]
  /\ data = [s \in StoreIds |-> EmptyData]
  /\ timer = [s \in StoreIds |-> 0]
  /\ immediates = <<>>
  /\ exitHooks = <<>>
  /\ lastOp = Op("init", "-", "-", FALSE, 0, 0)
  /\ burst = [s \in StoreIds |-> "none"]
  /\ watch = NoWatch
  /\ saved = EmptyData

\* options.data of the constructor: Keys -> <<>> (no property) or <<value>>
InitialDatas ==
  {[k \in Keys |-> Undefined],
   [k \in Keys |-> IF k = "a" THEN <<1>> ELSE Undefined]}

RECURSIVE SeedData(_, _, _, _, _)
\* for (let [key, value] of Object.entries(data || {})) this._set(key, value, ttl)
SeedData(d, ks, init, ttl, t) ==
  IF ks = {} THEN d
  ELSE LET k == CHOOSE x \in ks : TRUE
           d1 == IF init[k] = Undefined THEN d ELSE SetData(d, k, init[k][1], ttl, t)
       IN SeedData(d1, ks \ {k}, init, ttl, t)

Alive(s) == proc = "running" /\ constructed[s]

\* the branch of the constructor for a file that exists, followed by a
\* scheduleWrite() call
ConstructPresentScheduling(st, s) ==
  ScheduleWrite([st EXCEPT !.data[s] = Parse(st.file)], s)

\* the branch of the constructor for a file that exists: the parsed document
\* becomes this.data
ConstructPresent(st, s) == [st EXCEPT !.data[s] = Parse(st.file)]

\* the branch of the constructor for an absent file as the older variant has
\* it (src/unnamed/part_001, lines 21-24): scheduleWrite() in place of save()
ConstructAbsentScheduling(st, s, init, ttl, t, tSave) ==
  ScheduleWrite([st EXCEPT !.data[s] = SeedData(EmptyData, Keys, init, ttl, t)], s)

\* the branch of the constructor for an absent file: the _set calls read the
\* clock at t, the save() call at tSave >= t
ConstructAbsent(st, s, init, ttl, t, tSave) ==
  Save([st EXCEPT !.data[s] = SeedData(EmptyData, Keys, init, ttl, t)], s, tSave)

\* new BoringCache(path, {data: init, ttl}); the clock advances by dt between
\* the _set calls and the save() call of the constructor
Construct(s, init, ttl, dt) ==
  /\ proc = "running"
  /\ ~constructed[s]
  /\ now + dt <= MaxTime
  /\ fileExists => dt = 0 /\ file # TruncatedDoc
  /\ LET st == IF fileExists
               THEN ConstructPresent(Cur, s)
               ELSE ConstructAbsent(Cur, s, init, ttl, now, now + dt)
     IN /\ Commit(st)
        /\ lastOp' = Op("construct", s, "-", FALSE, st.writes,
                        IF fileExists THEN 1 ELSE 0)
  /\ now' = now + dt
  /\ constructed' = [constructed EXCEPT ![s] = TRUE]
  /\ exitHooks' = Append(exitHooks, s)
  /\ UNCHANGED <<proc, burst, watch>>

\* get(key) that deletes the entry it finds stale
AfterGetPurging(st, s, key, t) ==
  IF st.data[s][key].kind = "entry" /\ Get(st.data[s], key, t) = Undefined
  THEN [st EXCEPT !.data[s] = DeleteData(@, key)]
  ELSE st

\* what get(key) leaves behind: the method holds no assignment
AfterGet(st, s, key, t) == st

\* what list(key) leaves behind: filter and map build new arrays
AfterList(st, s, key, t) == st

\* get(key): the call reads this.data and Date.now() and returns undefined or
\* a stored value
GetOp(s, key) ==
  /\ Alive(s)
  /\ Get(data[s], key, now) \in {Undefined} \cup {<<v>> : v \in Values}
  /\ Commit(AfterGet(Cur, s, key, now))
  /\ lastOp' = Op("get", s, key, timer[s] # 0, 0, 0)
  /\ UNCHANGED <<now, proc, constructed, exitHooks, burst, watch>>

\* list(key): the call reads this.data and Date.now() and returns a new array
ListOp(s, key) ==
  /\ Alive(s)
  /\ Len(List(data[s], key, now)) <= MaxEntries
  /\ Commit(AfterList(Cur, s, key, now))
  /\ lastOp' = Op("list", s, key, timer[s] # 0, 0, 0)
  /\ UNCHANGED <<now, proc, constructed, exitHooks, burst, watch>>

\* set(key, value, ttl)
Set(s, key, value, ttl) ==
  /\ Alive(s)
  /\ CountEntries(data[s], Keys \ {key}) < MaxEntries
  /\ LET st == ScheduleWrite([Cur EXCEPT !.data[s] = SetData(@, key, value, ttl, now)], s)
     IN /\ Commit(st)
        /\ lastOp' = Op("set", s, key, timer[s] # 0, st.writes,
                        IF IsArray(data[s][key]) THEN 1 ELSE 0)
  /\ burst' = InBurst(s, TRUE)
  /\ watch' \in WatchAfter(s, key,
                  [on |-> ttl # Infinity, store |-> s, key |-> key, push |-> FALSE,
                   before |-> <<>>, value |-> value, expires |-> now + ttl])
  /\ UNCHANGED <<now, proc, constructed, exitHooks>>

\* push(key, value, ttl)
Push(s, key, value, ttl) ==
  /\ Alive(s)
  /\ CountEntries(data[s], Keys \ {key})
       + (IF IsArray(data[s][key]) THEN Len(data[s][key].items) ELSE 0) < MaxEntries
  /\ LET st == ScheduleWrite([Cur EXCEPT !.data[s] = PushData(@, key, value, ttl, now)], s)
     IN /\ Commit(st)
        /\ lastOp' = Op("push", s, key, timer[s] # 0, st.writes,
                        IF IsArray(data[s][key]) THEN 1 ELSE 0)
  /\ burst' = InBurst(s, TRUE)
  /\ watch' \in WatchAfter(s, key,
                  [on |-> ttl # Infinity, store |-> s, key |-> key, push |-> TRUE,
                   before |-> IF IsArray(data[s][key]) THEN data[s][key].items ELSE <<>>,
                   value |-> value, expires |-> now + ttl])
  /\ UNCHANGED <<now, proc, constructed, exitHooks>>

\* pull(key, value)
Pull(s, key, m) ==
  /\ Alive(s)
  /\ LET isList == IsArray(data[s][key])
         st == IF ~isList THEN Cur
               ELSE ScheduleWrite([Cur EXCEPT !.data[s] = PullData(@, key, m)], s)
     IN /\ Commit(st)
        /\ lastOp' = Op("pull", s, key, timer[s] # 0, st.writes,
                        IF isList THEN Len(data[s][key].items) - Len(st.data[s][key].items)
                        ELSE -1)
        /\ burst' = InBurst(s, isList)
        /\ watch' \in (IF isList THEN WatchAfter(s, key, NoWatch) ELSE {watch})
  /\ UNCHANGED <<now, proc, constructed, exitHooks>>

\* delete(key)
Delete(s, key) ==
  /\ Alive(s)
  /\ LET st == ScheduleWrite([Cur EXCEPT !.data[s] = DeleteData(@, key)], s)
     IN /\ Commit(st)
        /\ lastOp' = Op("delete", s, key, timer[s] # 0, st.writes, 0)
  /\ burst' = InBurst(s, TRUE)
  /\ watch' \in WatchAfter(s, key, NoWatch)
  /\ UNCHANGED <<now, proc, constructed, exitHooks>>

\* clear()
Clear(s) ==
  /\ Alive(s)
  /\ LET st == ScheduleWrite([Cur EXCEPT !.data[s] = EmptyData], s)
     IN /\ Commit(st)
        /\ lastOp' = Op("clear", s, "-", timer[s] # 0, st.writes, 0)
  /\ burst' = InBurst(s, TRUE)
  /\ watch' = IF watch.store = s THEN NoWatch ELSE watch
  /\ UNCHANGED <<now, proc, constructed, exitHooks>>

\* save(), called by the user of the cache
SaveOp(s) ==
  /\ Alive(s)
  /\ LET st == Save(Cur, s, now)
     IN /\ Commit(st)
        /\ lastOp' = Op("save", s, "-", timer[s] # 0, st.writes,
                        CountEntries(data[s], Keys) - CountEntries(st.data[s], Keys))
  /\ burst' = [burst EXCEPT ![s] = "none"]
  /\ UNCHANGED <<now, proc, constructed, exitHooks, watch>>

\* The event loop reaches its check phase and runs the oldest setImmediate
\* callback, () => this.save().
Immediate ==
  /\ proc = "running"
  /\ immediates # <<>>
  /\ LET cb == Head(immediates)
         st == Save([Cur EXCEPT !.immediates = Tail(@)], cb.store, now)
     IN /\ Commit(st)
        /\ lastOp' = Op("immediate", cb.store, "-", timer[cb.store] # 0, st.writes,
                        CountEntries(data[cb.store], Keys)
                          - CountEntries(st.data[cb.store], Keys))
        /\ burst' = [burst EXCEPT ![cb.store] = "none"]
  /\ UNCHANGED <<now, proc, constructed, exitHooks, watch>>

\* The process exits: the 'exit' listeners run, and nothing runs after them.
Exit ==
  /\ proc = "running"
  /\ LET st == RunExitHooks(Cur, exitHooks)
     IN /\ Commit(st)
        /\ lastOp' = Op("exit", "-", "-", \E s \in StoreIds : timer[s] # 0, st.writes,
                        {s \in StoreIds : timer[s] # 0})
  /\ proc' = "exited"
  /\ burst' = [s \in StoreIds |-> "none"]
  /\ UNCHANGED <<now, constructed, exitHooks, watch>>

\* A new process starts on the same file system: no instance, no callback.
Restart ==
  /\ proc = "exited"
  /\ proc' = "running"
  /\ constructed' = [s \in StoreIds |-> FALSE]
  /\ data' = [s \in StoreIds |-> EmptyData]
  /\ timer' = [s \in StoreIds |-> 0]
  /\ immediates' = <<>>
  /\ exitHooks' = <<>>
  /\ burst' = [s \in StoreIds |-> "none"]
  /\ watch' = NoWatch
  /\ lastOp' = Op("restart", "-", "-", FALSE, 0, 0)
  /\ UNCHANGED <<now, fileExists, file, saved>>

\* The clock advances by one millisecond.
Tick ==
  /\ now < MaxTime
  /\ now' = now + 1
  /\ lastOp' = Op("tick", "-", "-", FALSE, 0, 0)
  /\ UNCHANGED <<fileExists, file, proc, constructed, data, timer, immediates,
                 exitHooks, burst, watch, saved>>

\* the calls a user of instance s can make
Call(s) ==
  \/ \E init \in InitialDatas, ttl \in TTLs, dt \in 0..MaxDelay : Construct(s, init, ttl, dt)
  \/ \E key \in Keys : GetOp(s, key)
  \/ \E key \in Keys : ListOp(s, key)
  \/ \E key \in Keys, value \in Values, ttl \in TTLs : Set(s, key, value, ttl)
  \/ \E key \in Keys, value \in Values, ttl \in TTLs : Push(s, key, value, ttl)
  \/ \E key \in Keys, m \in Matchers : Pull(s, key, m)
  \/ \E key \in Keys : Delete(s, key)
  \/ Clear(s)
  \/ SaveOp(s)

Next ==
  \/ \E s \in SpecStores : Call(s)
  \/ Immediate
  \/ Exit
  \/ Restart
  \/ Tick

Spec == Init /\ [][Next]_vars

\* ------------------------------------------------------ the event loop
\* The calls that write, in one process; get and list change nothing and are
\* left out.
CallLive(s) ==
  \/ \E init \in InitialDatas, ttl \in TTLs, dt \in 0..MaxDelay : Construct(s, init, ttl, dt)
  \/ \E key \in Keys, value \in Values, ttl \in TTLs : Set(s, key, value, ttl)
  \/ \E key \in Keys, value \in Values, ttl \in TTLs : Push(s, key, value, ttl)
  \/ \E key \in Keys, m \in Matchers : Pull(s, key, m)
  \/ \E key \in Keys : Delete(s, key)
  \/ Clear(s)
  \/ SaveOp(s)

NextLive ==
  \/ \E s \in SpecStores : CallLive(s)
  \/ Immediate
  \/ Exit
  \/ Tick

\* The event loop of a running process reaches its check phase again and
\* again, so a queued setImmediate callback is run.
SpecLive == Init /\ [][NextLive]_vars /\ WF_vars(Immediate)

\* ------------------------------------------------------ failing writes
\* new BoringCache(path, options) on an absent file whose save() throws: no
\* instance comes to exist and no 'exit' listener is registered.
ConstructThrows(s, dt, torn) ==
  /\ proc = "running"
  /\ ~constructed[s]
  /\ ~fileExists
  /\ now + dt <= MaxTime
  /\ file' = IF torn THEN TruncatedDoc ELSE file
  /\ fileExists' = torn
  /\ now' = now + dt
  /\ lastOp' = Op("construct-throws", s, "-", FALSE, 0, 0)
  /\ UNCHANGED <<proc, constructed, data, timer, immediates, exitHooks, burst,
                 watch, saved>>

\* save(), called by the user of the cache, throws
SaveOpThrows(s, torn) ==
  /\ Alive(s)
  /\ LET st == SaveThrowing(Cur, s, now, torn)
     IN /\ Commit(st)
        /\ lastOp' = Op("save-throws", s, "-", timer[s] # 0, st.writes, 0)
  /\ burst' = [burst EXCEPT ![s] = "failed"]
  /\ UNCHANGED <<now, proc, constructed, exitHooks, watch>>

\* The oldest setImmediate callback runs and its save() throws.  With an
\* 'uncaughtException' listener (handled) the process goes on; without one it
\* exits at once, running the 'exit' listeners.
ImmediateThrows(torn, handled) ==
  /\ proc = "running"
  /\ immediates # <<>>
  /\ LET cb == Head(immediates)
         thrown == SaveThrowing([Cur EXCEPT !.immediates = Tail(@)], cb.store, now, torn)
         st == IF handled THEN thrown ELSE RunExitHooks(thrown, exitHooks)
     IN /\ Commit(st)
        /\ lastOp' = Op("immediate-throws", cb.store, "-", timer[cb.store] # 0,
                        st.writes, 0)
        /\ burst' = IF handled THEN [burst EXCEPT ![cb.store] = "failed"]
                    ELSE [s \in StoreIds |-> "none"]
  /\ proc' = IF handled THEN proc ELSE "exited"
  /\ UNCHANGED <<now, constructed, exitHooks, watch>>

\* The process exits and the save() of one 'exit' listener throws: the
\* listeners before it have run, the ones after it do not run.
ExitThrows(torn) ==
  /\ proc = "running"
  /\ \E i \in 1..Len(exitHooks) :
       LET before == RunExitHooks(Cur, SubSeq(exitHooks, 1, i - 1))
           st == SaveThrowing(before, exitHooks[i], now, torn)
       IN /\ before.timer[exitHooks[i]] # 0
          /\ Commit(st)
          /\ lastOp' = Op("exit-throws", exitHooks[i], "-", TRUE, st.writes, 0)
  /\ proc' = "exited"
  /\ burst' = [s \in StoreIds |-> "none"]
  /\ UNCHANGED <<now, constructed, exitHooks, watch>>

NextFail ==
  \/ \E s \in SpecStores : Call(s)
  \/ Immediate
  \/ Exit
  \/ Tick
  \/ \E s \in SpecStores, dt \in 0..MaxDelay, torn \in BOOLEAN : ConstructThrows(s, dt, torn)
  \/ \E s \in SpecStores, torn \in BOOLEAN : SaveOpThrows(s, torn)
  \/ \E torn, handled \in BOOLEAN : ImmediateThrows(torn, handled)
  \/ \E torn \in BOOLEAN : ExitThrows(torn)

\* one process using the cache on a file system whose writes can fail
SpecFail == Init /\ [][NextFail]_vars

\* ------------------------------------------------------- two instances
\* The calls of one of two instances on the same path: scalar writes,
\* deletions and saves, which is what a race on the file takes.
CallTwo(s) ==
  \/ \E init \in InitialDatas : Construct(s, init, Infinity, 0)
  \/ \E key \in Keys, value \in Values, ttl \in TTLs : Set(s, key, value, ttl)
  \/ \E key \in Keys : Delete(s, key)
  \/ Clear(s)
  \/ SaveOp(s)

NextTwo ==
  \/ \E s \in StoreIds : CallTwo(s)
  \/ Immediate
  \/ Exit
  \/ Tick

\* one process with two instances on the same path
SpecTwo == Init /\ [][NextTwo]_vars

\* ------------------------------------------------------------- claims
\* the number of queued setImmediate callbacks of s
Queued(s) == Cardinality({i \in 1..Len(immediates) : immediates[i].store = s})

\* An entry is live at t iff it has no expiry or t is before its expiry.
LiveAt(e, t) == Expires(e) = Undefined \/ t < Expires(e)[1]

RECURSIVE LiveValuesAt(_, _)
\* the values of the entries of items that are live at t, in order
LiveValuesAt(items, t) ==
  IF items = <<>> THEN <<>>
  ELSE (IF LiveAt(Head(items), t) THEN <<Head(items).value>> ELSE <<>>)
       \o LiveValuesAt(Tail(items), t)

\* C1. TTL monotonicity: an entry written by set or push with a finite ttl at
\* time w, its key not mutated since, is returned by get/list at every time
\* now < w + ttl and is not returned at any time now >= w + ttl, whatever
\* saves, write-backs and clock advances happened in between.  For push the
\* entries that were in the list before it account for the rest of the result.
TtlMonotonicity ==
  watch.on =>
    LET d == data[watch.store]
        own == IF now < watch.expires THEN <<watch.value>> ELSE <<>>
    IN IF watch.push
       THEN List(d, watch.key, now) = LiveValuesAt(watch.before, now) \o own
       ELSE Get(d, watch.key, now) = own

\* A push with a finite ttl onto a list has expired and a debounced
\* write-back has since swept the list.
TtlMonotonicityWitness ==
  /\ watch.on /\ watch.push /\ watch.before # <<>>
  /\ now >= watch.expires
  /\ lastOp.op = "immediate"

\* C2 as stated. Debounce coalescing for every burst of K >= 1 mutation calls:
\* no call writes the file, at most one callback of an instance is queued, a
\* burst leaves exactly one callback queued, and the callback writes once.
DebounceCoalescingAnyBurst ==
  /\ lastOp.op \in Mutations => lastOp.writes = 0
  /\ lastOp.op = "immediate" => lastOp.writes = 1 /\ Queued(lastOp.store) = 0
  /\ \A s \in StoreIds :
       /\ Queued(s) <= 1
       /\ burst[s] # "none" => Queued(s) = 1

\* C2 as amended. The same for every burst in which some call is not a pull on
\* a key whose slot is absent or a scalar; a burst of such pulls alone queues
\* no callback, so nothing is written when the event loop idles.
DebounceCoalescing ==
  /\ lastOp.op \in Mutations => lastOp.writes = 0
  /\ lastOp.op = "immediate" => lastOp.writes = 1 /\ Queued(lastOp.store) = 0
  /\ \A s \in StoreIds :
       /\ Queued(s) <= 1
       /\ burst[s] = "scheduling" => Queued(s) = 1
       /\ burst[s] = "returned" => Queued(s) = 0

\* The second or a later scheduling call of a burst has returned: one callback
\* is queued and the file is as it was.
DebounceCoalescingWitness ==
  /\ lastOp.op \in Mutations
  /\ lastOp.pending
  /\ burst[lastOp.store] = "scheduling"
  /\ Queued(lastOp.store) = 1

\* C3. Exit flush: when the process exits with a write-back pending, the exit
\* listener runs save() once, so the file holds the swept mapping of the
\* instance; with no write-back pending the listener writes nothing.
ExitFlush ==
  lastOp.op = "exit" =>
    /\ lastOp.writes = Cardinality(lastOp.info)
    /\ \A s \in lastOp.info : timer[s] = 0 /\ data[s] = Sweep(data[s], now)
    /\ lastOp.info # {} =>
         fileExists /\ \E s \in lastOp.info : file = Stringify(data[s])

\* The process exited with a write-back pending and an entry in the mapping.
ExitFlushWitness ==
  /\ lastOp.op = "exit"
  /\ \E s \in lastOp.info : \E k \in Keys : data[s][k].kind # "absent"

\* a document entry that is stale at t
StaleInFile(j, t) == "expires" \in DOMAIN j /\ j.expires <= t

\* C4 as stated. Sweep correctness: right after a save() at time now, neither
\* the file nor the mapping holds a scalar entry or a list item with
\* expires <= now, or a key with an empty list.
SweepCorrectness ==
  lastOp.writes > 0 =>
    \A k \in Keys :
      /\ \A i \in 1..Len(file[k].items) : ~StaleInFile(file[k].items[i], now)
      /\ ~(file[k].kind = "list" /\ file[k].items = <<>>)
      /\ \A s \in StoreIds :
           s = lastOp.store =>
             /\ \A i \in 1..Len(data[s][k].items) : LiveAt(data[s][k].items[i], now)
             /\ ~(data[s][k].kind = "list" /\ data[s][k].items = <<>>)

\* C5. Round trip: a store constructed on a file written by save() answers
\* get and list like the store that saved it, at the construction time and at
\* every later time.
RoundTrip ==
  lastOp.op = "construct" /\ lastOp.info = 1 =>
    \A k \in Keys : \A t \in now..(MaxTime + MaxTtl + 1) :
      /\ Get(data[lastOp.store], k, t) = Get(saved, k, t)
      /\ List(data[lastOp.store], k, t) = List(saved, k, t)

\* A store was constructed on a file holding a list of two items, one with
\* and one without an expiry.
RoundTripWitness ==
  /\ lastOp.op = "construct" /\ lastOp.info = 1
  /\ \E k \in Keys :
       /\ data[lastOp.store][k].kind = "list"
       /\ \E i, j \in 1..Len(data[lastOp.store][k].items) :
            /\ "expires" \in DOMAIN data[lastOp.store][k].items[i]
            /\ "expires" \notin DOMAIN data[lastOp.store][k].items[j]

RECURSIVE WithoutMatches(_, _)
\* items without the entries whose value the matcher m matches, in order
WithoutMatches(items, m) ==
  IF items = <<>> THEN <<>>
  ELSE LET hit == IF m.fn THEN Head(items).value \in m.accepts
                  ELSE Head(items).value = m.value
       IN (IF hit THEN <<>> ELSE <<Head(items)>>) \o WithoutMatches(Tail(items), m)

\* C6. pull(key, matcher) on a key holding a list removes exactly the entries
\* whose value matches (equals the literal, satisfies the predicate) and keeps
\* the others in their order; after push 1, push 2 (default ttl), pull 1 the
\* list is [2].
PullRemovesMatches ==
  [][\A s \in StoreIds, k \in Keys, m \in Matchers :
       Pull(s, k, m) /\ IsArray(data[s][k]) =>
         /\ data'[s][k].kind = "list"
         /\ data'[s][k].items = WithoutMatches(data[s][k].items, m)
         /\ data[s][k].items = <<NewEntry(1, Infinity, now), NewEntry(2, Infinity, now)>>
              /\ ~m.fn /\ m.value = 1 =>
                List(data'[s], k, now') = <<2>>]_vars

\* A pull has removed one item of a list and kept another.
PullRemovesMatchesWitness ==
  /\ lastOp.op = "pull"
  /\ lastOp.info = 1
  /\ Len(data[lastOp.store][lastOp.key].items) = 1

\* C7. Shape disjointness of reads: get(key) is undefined whenever the slot is
\* a list, and list(key) is empty whenever the slot is absent or a scalar.
ShapeDisjointness ==
  \A s \in StoreIds, k \in Keys :
    /\ data[s][k].kind = "list" => Get(data[s], k, now) = Undefined
    /\ data[s][k].kind \in {"absent", "entry"} => List(data[s], k, now) = <<>>

\* A key holds a scalar that is live, so that get returns its value.
ShapeDisjointnessWitness ==
  \E s \in StoreIds, k \in Keys :
    /\ constructed[s]
    /\ data[s][k].kind = "entry"
    /\ Get(data[s], k, now) # Undefined

\* C8. list(key) on a list slot returns exactly the values of the entries live
\* at call time, in stored order, which is the order of the push calls: push
\* appends its entry after all existing entries and changes none of them.
ListInPushOrder ==
  [][/\ \A s \in StoreIds, k \in Keys :
          data'[s][k].kind = "list" =>
            List(data'[s], k, now') = LiveValuesAt(data'[s][k].items, now')
     /\ \A s \in StoreIds, k \in Keys, v \in Values, ttl \in TTLs :
          Push(s, k, v, ttl) =>
            LET old == IF data[s][k].kind = "list" THEN data[s][k].items ELSE <<>>
                new == data'[s][k].items
            IN /\ data'[s][k].kind = "list"
               /\ Len(new) = Len(old) + 1
               /\ \A i \in 1..Len(old) : new[i] = old[i]
               /\ new[Len(new)].value = v
               /\ Expires(new[Len(new)]) =
                    IF ttl = Infinity THEN Undefined ELSE <<now + ttl>>]_vars

\* A push has appended an entry to a list whose first entry is stale.
ListInPushOrderWitness ==
  /\ lastOp.op = "push"
  /\ lastOp.info = 1
  /\ LET items == data[lastOp.store][lastOp.key].items
     IN Len(items) = 2 /\ ~LiveAt(items[1], now) /\ LiveAt(items[2], now)

\* C9 as stated. On return from any call of set, push, pull, delete or clear a
\* write-back is pending and the call has not written the file.
EveryMutationSchedules ==
  lastOp.op \in Mutations =>
    /\ timer[lastOp.store] # 0
    /\ lastOp.writes = 0

\* C9 as amended. The same for set, push, delete, clear and for pull on a key
\* holding a list; a pull on a key whose slot is absent or a scalar returns at
\* once: it writes nothing and leaves the write-back pending or not as it was.
SchedulingMutationSchedules ==
  lastOp.op \in Mutations =>
    /\ lastOp.writes = 0
    /\ IF lastOp.op = "pull" /\ lastOp.info = -1
       THEN (timer[lastOp.store] # 0) = lastOp.pending
       ELSE /\ timer[lastOp.store] # 0
            /\ \E i \in 1..Len(immediates) :
                 immediates[i] = [store |-> lastOp.store, id |-> timer[lastOp.store]]

\* A delete has returned on a store that had no write-back pending.
SchedulingMutationSchedulesWitness ==
  /\ lastOp.op = "delete"
  /\ ~lastOp.pending
  /\ timer[lastOp.store] # 0

\* C10. Cancellation: a save() called while a write-back is pending writes the
\* file and disarms the callback, so no callback of the instance is queued
\* while its timer is undefined; a later mutation arms a callback that is queued.
Cancellation ==
  /\ lastOp.op = "save" =>
       lastOp.writes = 1 /\ timer[lastOp.store] = 0 /\ Queued(lastOp.store) = 0
  /\ \A s \in StoreIds :
       /\ timer[s] = 0 => Queued(s) = 0
       /\ timer[s] # 0 =>
            \E i \in 1..Len(immediates) : immediates[i] = [store |-> s, id |-> timer[s]]

\* save() was called while a write-back was pending.
CancellationWitness ==
  /\ lastOp.op = "save"
  /\ lastOp.pending
  /\ Queued(lastOp.store) = 0

\* the scalar slot _set(key, value, ttl) writes at time t
SeededSlot(value, ttl, t) ==
  [kind |-> "entry",
   items |-> <<[value |-> value,
                expires |-> IF ttl = Infinity THEN Undefined ELSE <<t + ttl>>]>>]

\* C11 as stated. Construction with an absent file: when the constructor
\* returns the file exists and equals the mapping, the mapping holds one
\* scalar entry per key of the initial data with expires = construction time +
\* default ttl (none for the infinite ttl), and no write-back is pending.
ConstructionSeedsEveryKey ==
  [][\A s \in StoreIds, init \in InitialDatas, ttl \in TTLs, dt \in 0..MaxDelay :
       Construct(s, init, ttl, dt) /\ ~fileExists =>
         /\ fileExists'
         /\ file' = Stringify(data'[s])
         /\ \A k \in Keys :
              data'[s][k] = IF init[k] = Undefined THEN Absent
                            ELSE SeededSlot(init[k][1], ttl, now)
         /\ timer'[s] = 0
         /\ \A i \in 1..Len(immediates') : immediates'[i].store # s]_vars

\* C11 as amended. The same, but the mapping and the file hold the entry of a
\* key only when its expiry is not before the clock value the save() call of
\* the constructor reads; an entry whose ttl ran out while the constructor was
\* running is in neither.
ConstructionSeedsUnexpiredKeys ==
  [][\A s \in StoreIds, init \in InitialDatas, ttl \in TTLs, dt \in 0..MaxDelay :
       Construct(s, init, ttl, dt) /\ ~fileExists =>
         /\ fileExists'
         /\ file' = Stringify(data'[s])
         /\ \A k \in Keys :
              data'[s][k] = IF init[k] # Undefined /\ (ttl = Infinity \/ now + ttl >= now')
                            THEN SeededSlot(init[k][1], ttl, now)
                            ELSE Absent
         /\ timer'[s] = 0
         /\ \A i \in 1..Len(immediates') : immediates'[i].store # s]_vars

\* A store was constructed on an absent file with initial data and a finite
\* default ttl, and the entry is in the mapping and in the file.
ConstructionSeedsUnexpiredKeysWitness ==
  /\ lastOp.op = "construct" /\ lastOp.info = 0 /\ lastOp.writes = 1
  /\ \E k \in Keys :
       /\ data[lastOp.store][k].kind = "entry"
       /\ Expires(data[lastOp.store][k].items[1]) # Undefined
       /\ file[k].kind = "entry"

\* C12. Construction with an existing file: the mapping after construction is
\* the document of the file entry by entry, stale entries included, whatever
\* initial data and ttl the caller passes; the file is not written and no
\* write-back is pending.
ConstructionLoadsVerbatim ==
  [][\A s \in StoreIds, init \in InitialDatas, ttl \in TTLs, dt \in 0..MaxDelay :
       Construct(s, init, ttl, dt) /\ fileExists =>
         /\ \A k \in Keys :
              /\ data'[s][k].kind = file[k].kind
              /\ Len(data'[s][k].items) = Len(file[k].items)
              /\ \A i \in 1..Len(file[k].items) :
                   /\ data'[s][k].items[i].value = file[k].items[i].value
                   /\ Expires(data'[s][k].items[i]) =
                        IF "expires" \in DOMAIN file[k].items[i]
                        THEN <<file[k].items[i].expires>> ELSE Undefined
         /\ Stringify(data'[s]) = file
         /\ file' = file /\ fileExists'
         /\ lastOp'.writes = 0
         /\ timer'[s] = 0
         /\ \A i \in 1..Len(immediates') : immediates'[i].store # s]_vars

\* A store was constructed on a file that holds a stale entry, and the entry
\* is in the mapping.
ConstructionLoadsVerbatimWitness ==
  /\ lastOp.op = "construct" /\ lastOp.info = 1
  /\ \E k \in Keys : \E i \in 1..Len(data[lastOp.store][k].items) :
       /\ ~LiveAt(data[lastOp.store][k].items[i], now)
       /\ StaleInFile(file[k].items[i], now)

\* C13. Reads are pure: a get or list call leaves the mapping (stale entries
\* included), the write-back timer, the callback queue and the file as they
\* were; the mapping changes only in a mutation call, in a constructor, or in
\* a save() (called, debounced or at exit), and a save() leaves the sweep of
\* the mapping it found.
ReadsArePure ==
  [][/\ lastOp'.op \in {"get", "list"} =>
          UNCHANGED <<data, timer, immediates, file, fileExists>>
     /\ \A s \in StoreIds, k \in Keys :
          GetOp(s, k) \/ ListOp(s, k) =>
            UNCHANGED <<data, timer, immediates, file, fileExists>>
     /\ \A s \in StoreIds :
          data'[s] # data[s] /\ lastOp'.op \notin Mutations \cup {"construct", "restart"} =>
            /\ lastOp'.op \in {"save", "immediate", "exit"}
            /\ data'[s] = Sweep(data[s], now)]_vars

\* get has returned undefined for a key whose scalar entry is stale, and the
\* entry is still in the mapping.
ReadsArePureWitness ==
  /\ lastOp.op = "get"
  /\ data[lastOp.store][lastOp.key].kind = "entry"
  /\ ~LiveAt(data[lastOp.store][lastOp.key].items[1], now)
  /\ Get(data[lastOp.store], lastOp.key, now) = Undefined

\* C14. A slot has one shape, and writes switch it: after set(key, v, ttl) the
\* slot is one scalar entry, list(key) is empty and get(key) is v (undefined
\* for ttl 0, which expires at once), whatever list the key held; after
\* push(key, v, ttl) on a key holding a scalar or nothing the slot is a list of
\* the new entry alone, get(key) is undefined and list(key) is [v] (empty for
\* ttl 0).
WritesSwitchShape ==
  [][/\ \A s \in StoreIds, k \in Keys, v \in Values, ttl \in TTLs :
          Set(s, k, v, ttl) =>
            /\ data'[s][k].kind = "entry"
            /\ Len(data'[s][k].items) = 1
            /\ List(data'[s], k, now') = <<>>
            /\ Get(data'[s], k, now') = IF ttl = 0 THEN Undefined ELSE <<v>>
     /\ \A s \in StoreIds, k \in Keys, v \in Values, ttl \in TTLs :
          Push(s, k, v, ttl) /\ data[s][k].kind \in {"absent", "entry"} =>
            /\ data'[s][k].kind = "list"
            /\ Len(data'[s][k].items) = 1
            /\ Get(data'[s], k, now') = Undefined
            /\ List(data'[s], k, now') = IF ttl = 0 THEN <<>> ELSE <<v>>]_vars

\* set has replaced a list by a scalar that get returns.
WritesSwitchShapeWitness ==
  /\ lastOp.op = "set"
  /\ lastOp.info = 1
  /\ Get(data[lastOp.store], lastOp.key, now) # Undefined
  /\ List(data[lastOp.store], lastOp.key, now) = <<>>

\* C15 as stated. A save() whose file write throws keeps the data for a retry:
\* get and list return after it what they returned before it, the next save()
\* that succeeds writes the mapping, and if the process exits after the
\* failed save() with no mutation call in between, the file holds the mapping
\* (stated for a failed write that left the file as it was).
FailedSaveKeepsData ==
  [][/\ lastOp'.op \in {"save-throws", "immediate-throws"} =>
          \A k \in Keys :
            /\ Get(data'[lastOp'.store], k, now') = Get(data[lastOp'.store], k, now)
            /\ List(data'[lastOp'.store], k, now') = List(data[lastOp'.store], k, now)
     /\ \A s \in StoreIds :
          burst[s] = "failed" /\ lastOp'.op \in {"save", "immediate"} /\ lastOp'.store = s =>
            fileExists' /\ file' = Stringify(data'[s])
     /\ \A s \in StoreIds :
          burst[s] = "failed" /\ file # TruncatedDoc /\ Alive(s) /\ Exit =>
            fileExists' /\ file' = Stringify(data'[s])]_vars

\* C16 as stated. Atomic whole-file rewrite: in every reachable state, also
\* after a save() that threw or was cut off, the file is a complete document:
\* the mapping the last completed write serialized.
AtomicRewrite ==
  fileExists => file # TruncatedDoc /\ file = Stringify(saved)

\* the instance whose 'exit' listener saved last, among the instances ss
LastHook(ss) ==
  exitHooks[CHOOSE i \in 1..Len(exitHooks) :
              /\ exitHooks[i] \in ss
              /\ \A j \in (i + 1)..Len(exitHooks) : exitHooks[j] \notin ss]

\* C17. Two instances on one path, last save wins: in every state the file is
\* the document of the swept mapping of the save() that ran last, and right
\* after a save() of an instance (called, debounced, in its constructor or in
\* its 'exit' listener) the file is the document of the mapping of that
\* instance alone, whatever the other instance had written.
LastSaveWins ==
  /\ fileExists => file = Stringify(saved)
  /\ lastOp.op \in {"save", "immediate"} => file = Stringify(data[lastOp.store])
  /\ lastOp.op = "construct" /\ lastOp.writes = 1 => file = Stringify(data[lastOp.store])
  /\ lastOp.op = "exit" /\ lastOp.info # {} => file = Stringify(data[LastHook(lastOp.info)])

\* The second instance has saved a mapping without the key while the first
\* instance, with nothing to write back, holds an entry for it: the entry is
\* not in the file.
LastSaveWinsWitness ==
  /\ lastOp.op \in {"save", "immediate"} /\ lastOp.store = "s2"
  /\ constructed["s1"] /\ timer["s1"] = 0
  /\ \E k \in Keys :
       /\ data["s1"][k].kind = "entry"
       /\ data["s2"][k].kind = "absent"
       /\ file[k].kind = "absent"

\* C18. Eventual persistence: with the event loop running its callbacks and
\* writes succeeding, a pending write-back leads to a state in which none is
\* pending and the file is the document of the mapping as the save() left it,
\* the mutations made while the write-back was pending included.
EventualPersistence ==
  \A s \in SpecStores :
    (timer[s] # 0) ~> (timer[s] = 0 /\ fileExists /\ file = Stringify(data[s]))

\* A debounced write-back has run and has written an entry to the file.
EventualPersistenceWitness ==
  /\ lastOp.op = "immediate"
  /\ lastOp.pending
  /\ timer[lastOp.store] = 0
  /\ file = Stringify(data[lastOp.store])
  /\ \E k \in Keys : file[k].kind # "absent"

\* C19. Dirty implies pending: for a constructed store whose writes succeed,
\* whenever no write-back is pending the file exists and is the document of
\* the mapping; so a mapping that differs from the file has a write-back
\* pending.
DirtyImpliesPending ==
  \A s \in SpecStores :
    constructed[s] /\ timer[s] = 0 => fileExists /\ file = Stringify(data[s])

\* A mutation has made the mapping differ from the file, and the write-back
\* is pending.
DirtyImpliesPendingWitness ==
  \E s \in SpecStores :
    /\ Alive(s)
    /\ lastOp.op \in Mutations
    /\ file # Stringify(data[s])
    /\ timer[s] # 0

\* C20. The sweep is invisible to reads: get and list return for every key
\* right after a save() (called, debounced or at exit) what they returned right
\* before it at the same clock value; the items a list keeps are the live ones
\* in their order.
SweepInvisibleToReads ==
  [][lastOp'.op \in {"save", "immediate", "exit"} =>
       \A s \in StoreIds, k \in Keys :
         /\ now' = now
         /\ Get(data'[s], k, now') = Get(data[s], k, now)
         /\ List(data'[s], k, now') = List(data[s], k, now)
         /\ data'[s] # data[s] /\ IsArray(data[s][k]) =>
              data'[s][k].items = SelectSeq(data[s][k].items, LAMBDA e : LiveAt(e, now))]_vars

\* A save() has removed a stale item of a list and kept a live one.
SweepInvisibleToReadsWitness ==
  /\ lastOp.op \in {"save", "immediate"}
  /\ lastOp.info >= 1
  /\ \E k \in Keys :
       /\ IsArray(data[lastOp.store][k])
       /\ List(data[lastOp.store], k, now) # <<>>

====
